---- MODULE Spec2Model ----
(***************************************************************************)
(* Model of redmine_gitlab_migrator/commands.py: the `issues`, `iid`,      *)
(* `roadmap` and `labels` commands, driven against a target (GitLab)       *)
(* project and its issues table.                                           *)
(***************************************************************************)
EXTENDS Integers, Sequences, FiniteSets, TLC

\* ---- bounds of the model ----
MaxId == 3           \* source issue ids are drawn from 1..MaxId
MaxIssues == 3       \* at most this many source issues are fetched
MaxInitialId == 2    \* --initial-id is absent or in 1..MaxInitialId
MaxStart == 2        \* the target's next sequential id starts in 1..MaxStart
MaxRows == 3         \* rows of the target issues table (iid command)
MaxSrc == 3          \* source ids captured in recovery markers: 1..MaxSrc
MaxWork == 2         \* versions / labels handled by roadmap / labels
MaxRuns == 2         \* invocations of the iid command on one project

\* ---- program constants ----
NoArg == 0               \* an absent (None) command line argument
DefaultInitialId == 1    \* int(args.initial_id or 1)
ExitOk == 0
ExitFailed == 1          \* exit(1), and the status of an uncaught exception
ExitCommandError == 12   \* exit(12) of main()
SpaceOffset == 100       \* the spacer added by UPDATE_IID_ISSUES

VARIABLES
  command,      \* args.command: "issues", "iid", "roadmap", "labels"
  check,        \* args.check
  keep_id,      \* args.keep_id
  initial_id,   \* args.initial_id (NoArg when absent)
  max_id,       \* args.max_id (NoArg when absent)
  fetched,      \* redmine_project.get_all_issues(): source ids in API order
  issues,       \* the filtered list the loop runs over
  idx,          \* position of the loop in issues (1-based)
  cur,          \* (data, meta) of the issue being processed
  last_iid,     \* last_iid
  created,      \* created['iid'] of the last create_issue
  work,         \* versions_data / labels still to handle
  pc,           \* position of the command
  exit_code,    \* process exit status once pc = "done"
  raised,       \* what ended the run: "none", "exit" (exit(1)), "CommandError",
                \* "ConvertError" (out of convert_issue), "TargetError" (out of a target call),
                \* "interrupted" (the process was killed)
  err,          \* what the CommandError message names
  t_issues,     \* target project: issues
  t_next_iid,   \* target project: next sequential id handed out
  t_labels,     \* target project: labels
  t_watchers,   \* target project: watcher associations
  t_milestones, \* target project: milestones
  db,           \* target issues table as seen by the iid command
  issues_count, \* issues_count parsed from the SCAN output
  affected,     \* rows the MIGRATE_IID_ISSUES statement affected (out2)
  migrated_count, \* the count the iid command reports
  calls,        \* target calls made so far, in order
  run,          \* number of the current invocation of the command
  db0           \* the issues table before the first invocation

args == <<command, check, keep_id, initial_id, max_id, fetched>>
driver == <<issues, idx, cur, last_iid, created, work>>
status == <<pc, exit_code, raised, err>>
target == <<t_issues, t_next_iid, t_labels, t_watchers, t_milestones, db>>
recovery == <<issues_count, affected, migrated_count>>
session == <<run, db0>>
vars == <<args, driver, status, target, recovery, calls, session>>

\* ---- helpers ----
Range(s) == {s[i] : i \in 1..Len(s)}

\* sequences without repetition over S, of length at most n
DistinctSeqs(S, n) ==
  UNION {{s \in [1..k -> S] : \A i, j \in 1..k : i # j => s[i] # s[j]} : k \in 0..n}

UpTo(S, n) == UNION {[1..k -> S] : k \in 0..n}

NoCur == [milestone_id |-> 0, todo |-> <<>>, watchers |-> <<>>]
NoErr == [title |-> 0, milestone_id |-> 0]

Call(op, issue, arg, ok) == [op |-> op, issue |-> issue, arg |-> arg, ok |-> ok]

MutatingOps == {"create_issue_fake", "delete_issue", "create_label", "create_issue",
                "create_watcher", "create_milestone", "UPDATE_IID_ISSUES",
                "MIGRATE_IID_ISSUES"}

\* ---- the issues filter, commands.py 259-262 ----
FilterIssues(all, init, max) ==
  LET FromInitial(id) == init <= id
      UpToMax(id) == max >= id
      a == IF init # NoArg THEN SelectSeq(all, FromInitial) ELSE all
  IN  IF max # NoArg THEN SelectSeq(a, UpToMax) ELSE a

\* variant: the "- 1" is forgotten
InitialLastIid_NoMinus(init) == IF init # NoArg THEN init ELSE DefaultInitialId

\* int(args.initial_id or 1) - 1
InitialLastIid(init) == (IF init # NoArg THEN init ELSE DefaultInitialId) - 1

\* ---- the converter's results for one issue ----
\* title is the issue's subject, represented by its id
convert_issue ==
  {[ok |-> FALSE, milestone_id |-> 0, todo |-> <<>>, watchers |-> <<>>]} \cup
  [ok : {TRUE}, milestone_id : 0..1, todo : UpTo({1}, 1), watchers : UpTo({1}, 1)]

\* gitlab_project.get_milestone_by_id raises ValueError on an unknown id
get_milestone_by_id(ms, id) == id \in ms

\* ---- initial states: the arguments, the source and the target ----
InitIssues ==
  /\ command = "issues"
  /\ check \in BOOLEAN
  /\ keep_id \in BOOLEAN
  /\ initial_id \in {NoArg} \cup 1..MaxInitialId
  /\ max_id \in {NoArg, MaxId - 1}
  /\ fetched \in DistinctSeqs(1..MaxId, MaxIssues)
  /\ t_next_iid \in 1..MaxStart
  /\ t_milestones \in SUBSET {1}
  /\ db = {}
  /\ work = <<>>

InitIid ==
  /\ command = "iid"
  /\ check \in BOOLEAN
  /\ keep_id = FALSE /\ initial_id = NoArg /\ max_id = NoArg /\ fetched = <<>>
  /\ t_next_iid = 1 /\ t_milestones = {}
  /\ \E S \in SUBSET (1..MaxRows) : \E m \in [S -> 0..MaxSrc] :
        db = {[id |-> r, iid |-> r, marker |-> m[r]] : r \in S}
  /\ work = <<>>

InitRoadmapLabels ==
  /\ command \in {"roadmap", "labels"}
  /\ check \in BOOLEAN
  /\ keep_id = FALSE /\ initial_id = NoArg /\ max_id = NoArg /\ fetched = <<>>
  /\ t_next_iid = 1 /\ t_milestones \in SUBSET {1}
  /\ db = {}
  /\ work \in UpTo(1..2, MaxWork)

Init ==
  /\ InitIssues \/ InitIid \/ InitRoadmapLabels
  /\ issues = <<>> /\ idx = 1 /\ cur = NoCur /\ last_iid = 0 /\ created = 0
  /\ pc = "start" /\ exit_code = ExitOk /\ raised = "none" /\ err = NoErr
  /\ t_issues = {} /\ t_labels = {} /\ t_watchers = {}
  /\ issues_count = 0 /\ affected = 0 /\ migrated_count = 0
  /\ calls = <<>>
  /\ run = 1 /\ db0 = db

\* ---- how a run ends ----
\* an exception other than CommandError is not caught by main()
Raise(exc) ==
  /\ pc' = "done" /\ exit_code' = ExitFailed /\ raised' = exc
  /\ err' = err

\* exit(1)
Exit1 ==
  /\ pc' = "done" /\ exit_code' = ExitFailed /\ raised' = "exit"
  /\ err' = err

\* raise CommandError, caught by main(): log.error(e); exit(12)
RaiseCommandError(title, milestone_id) ==
  /\ pc' = "done" /\ exit_code' = ExitCommandError /\ raised' = "CommandError"
  /\ err' = [title |-> title, milestone_id |-> milestone_id]

Return ==
  /\ pc' = "done" /\ exit_code' = ExitOk /\ raised' = "none"
  /\ err' = err

Goto(l) == pc' = l /\ UNCHANGED <<exit_code, raised, err>>

\* ---- perform_migrate_issues ----
redmine_id == issues[idx]

\* get issues, filter them, initialise last_iid
GetIssues ==
  /\ command = "issues" /\ pc = "start"
  /\ issues' = FilterIssues(fetched, initial_id, max_id)
  /\ last_iid' = InitialLastIid(initial_id)
  /\ Goto("loop")
  /\ UNCHANGED <<session, args, idx, cur, created, work, target, recovery, calls>>

\* the generator issues_data is exhausted: the command returns
EndIssues ==
  /\ command = "issues" /\ pc = "loop" /\ idx > Len(issues)
  /\ Return
  /\ UNCHANGED <<session, args, driver, target, recovery, calls>>

\* variant: a failed conversion is noted and the loop skips to the next issue
ConvertIssue_Skip ==
  /\ command = "issues" /\ pc = "loop" /\ idx <= Len(issues)
  /\ \E c \in convert_issue :
       IF ~c.ok
       THEN /\ pc' = "loop" /\ raised' = "ConvertError" /\ exit_code' = ExitFailed
            /\ idx' = idx + 1
            /\ UNCHANGED <<cur, err>>
       ELSE /\ cur' = [milestone_id |-> c.milestone_id, todo |-> c.todo,
                       watchers |-> c.watchers]
            /\ Goto(IF check THEN "check" ELSE IF keep_id THEN "gap" ELSE "labels")
            /\ UNCHANGED idx
  /\ UNCHANGED <<session, args, issues, last_iid, created, work, target, recovery, calls>>

\* the loop pulls the next (data, meta, redmine_id) out of the generator:
\* convert_issue runs now, and its exception ends the run
ConvertIssue ==
  /\ command = "issues" /\ pc = "loop" /\ idx <= Len(issues)
  /\ \E c \in convert_issue :
       IF ~c.ok
       THEN /\ Raise("ConvertError")
            /\ UNCHANGED cur
       ELSE /\ cur' = [milestone_id |-> c.milestone_id, todo |-> c.todo,
                       watchers |-> c.watchers]
            /\ Goto(IF check THEN "check" ELSE IF keep_id THEN "gap" ELSE "labels")
  /\ UNCHANGED <<session, args, issues, idx, last_iid, created, work, target, recovery, calls>>

\* variant: the unknown milestone is only logged and the loop goes on
CheckIssue_Continue ==
  /\ command = "issues" /\ pc = "check"
  /\ calls' = IF cur.milestone_id # 0
              THEN Append(calls, Call("get_milestone_by_id", idx, cur.milestone_id,
                                      get_milestone_by_id(t_milestones, cur.milestone_id)))
              ELSE calls
  /\ Goto("loop")
  /\ idx' = idx + 1 /\ cur' = NoCur
  /\ UNCHANGED <<session, args, issues, last_iid, created, work, target, recovery>>

\* args.check: look the milestone up, log what would be created
CheckIssue ==
  /\ command = "issues" /\ pc = "check"
  /\ IF cur.milestone_id # 0
     THEN /\ calls' = Append(calls, Call("get_milestone_by_id", idx, cur.milestone_id,
                                get_milestone_by_id(t_milestones, cur.milestone_id)))
          /\ IF get_milestone_by_id(t_milestones, cur.milestone_id)
             THEN /\ Goto("loop")
                  /\ idx' = idx + 1 /\ cur' = NoCur
             ELSE /\ RaiseCommandError(redmine_id, cur.milestone_id)
                  /\ UNCHANGED <<idx, cur>>
     ELSE /\ Goto("loop")
          /\ idx' = idx + 1 /\ cur' = NoCur
          /\ UNCHANGED calls
  /\ UNCHANGED <<session, args, issues, last_iid, created, work, target, recovery>>

\* variant: off by one in the loop test
NeedsPlaceholder_OffByOne(rid, last) == rid > last

\* while redmine_id > last_iid + 1
NeedsPlaceholder(rid, last) == rid > last + 1

\* variant: last_iid is not advanced by the placeholder's id; the loop is
\* followed for as many placeholders as a whole run can create
CreateFake_KeepsLast ==
  /\ command = "issues" /\ pc = "gap" /\ NeedsPlaceholder(redmine_id, last_iid)
  /\ t_next_iid <= MaxStart + MaxId + MaxIssues
  /\ \/ /\ calls' = Append(calls, Call("create_issue_fake", idx, t_next_iid, TRUE))
        /\ t_issues' = t_issues \cup {[iid |-> t_next_iid, fake |-> TRUE, src |-> 0]}
        /\ t_next_iid' = t_next_iid + 1
        /\ created' = t_next_iid
        /\ last_iid' = last_iid
        /\ Goto("delete")
     \/ /\ calls' = Append(calls, Call("create_issue_fake", idx, 0, FALSE))
        /\ Raise("TargetError")
        /\ UNCHANGED <<t_issues, t_next_iid, created, last_iid>>
  /\ UNCHANGED <<session, args, issues, idx, cur, work, t_labels, t_watchers, t_milestones, db,
                 recovery>>

\* created = create_issue({'title': 'fake'}, fake_meta); last_iid = created['iid']
CreateFake ==
  /\ command = "issues" /\ pc = "gap" /\ NeedsPlaceholder(redmine_id, last_iid)
  /\ \/ /\ calls' = Append(calls, Call("create_issue_fake", idx, t_next_iid, TRUE))
        /\ t_issues' = t_issues \cup {[iid |-> t_next_iid, fake |-> TRUE, src |-> 0]}
        /\ t_next_iid' = t_next_iid + 1
        /\ created' = t_next_iid
        /\ last_iid' = t_next_iid
        /\ Goto("delete")
     \/ /\ calls' = Append(calls, Call("create_issue_fake", idx, 0, FALSE))
        /\ Raise("TargetError")
        /\ UNCHANGED <<t_issues, t_next_iid, created, last_iid>>
  /\ UNCHANGED <<session, args, issues, idx, cur, work, t_labels, t_watchers, t_milestones, db,
                 recovery>>

\* variant: the placeholder is never deleted
DeleteFake_NoDelete ==
  /\ command = "issues" /\ pc = "delete"
  /\ Goto("gap")
  /\ UNCHANGED <<session, args, driver, target, recovery, calls>>

\* gitlab_project.delete_issue(created['id'])
DeleteFake ==
  /\ command = "issues" /\ pc = "delete"
  /\ \/ /\ calls' = Append(calls, Call("delete_issue", idx, created, TRUE))
        /\ t_issues' = {i \in t_issues : i.iid # created}
        /\ Goto("gap")
     \/ /\ calls' = Append(calls, Call("delete_issue", idx, created, FALSE))
        /\ Raise("TargetError")
        /\ UNCHANGED t_issues
  /\ UNCHANGED <<session, args, driver, t_next_iid, t_labels, t_watchers, t_milestones, db,
                 recovery>>

\* the while loop ends
EndGap ==
  /\ command = "issues" /\ pc = "gap" /\ ~NeedsPlaceholder(redmine_id, last_iid)
  /\ Goto("labels")
  /\ UNCHANGED <<session, args, driver, target, recovery, calls>>

\* variant: a failed create_label is swallowed
CreateLabel_Swallow ==
  /\ command = "issues" /\ pc = "labels" /\ cur.todo # <<>>
  /\ \E ok \in BOOLEAN :
        /\ calls' = Append(calls, Call("create_label", idx, Head(cur.todo), ok))
        /\ t_labels' = IF ok THEN t_labels \cup {Head(cur.todo)} ELSE t_labels
  /\ cur' = [cur EXCEPT !.todo = Tail(@)]
  /\ Goto("labels")
  /\ UNCHANGED <<session, args, issues, idx, last_iid, created, work, t_issues, t_next_iid,
                 t_watchers, t_milestones, db, recovery>>

\* for label in labels, then for tag in tags: gitlab_project.create_label
CreateLabel ==
  /\ command = "issues" /\ pc = "labels" /\ cur.todo # <<>>
  /\ \/ /\ calls' = Append(calls, Call("create_label", idx, Head(cur.todo), TRUE))
        /\ t_labels' = t_labels \cup {Head(cur.todo)}
        /\ cur' = [cur EXCEPT !.todo = Tail(@)]
        /\ Goto("labels")
     \/ /\ calls' = Append(calls, Call("create_label", idx, Head(cur.todo), FALSE))
        /\ Raise("TargetError")
        /\ UNCHANGED <<t_labels, cur>>
  /\ UNCHANGED <<session, args, issues, idx, last_iid, created, work, t_issues, t_next_iid,
                 t_watchers, t_milestones, db, recovery>>

\* created = gitlab_project.create_issue(data, meta); last_iid = created['iid']
CreateIssue ==
  /\ command = "issues" /\ pc = "labels" /\ cur.todo = <<>>
  /\ \/ /\ calls' = Append(calls, Call("create_issue", idx, t_next_iid, TRUE))
        /\ t_issues' = t_issues \cup {[iid |-> t_next_iid, fake |-> FALSE, src |-> redmine_id]}
        /\ t_next_iid' = t_next_iid + 1
        /\ created' = t_next_iid
        /\ last_iid' = t_next_iid
        /\ Goto("watchers")
     \/ /\ calls' = Append(calls, Call("create_issue", idx, 0, FALSE))
        /\ Raise("TargetError")
        /\ UNCHANGED <<t_issues, t_next_iid, created, last_iid>>
  /\ UNCHANGED <<session, args, issues, idx, cur, work, t_labels, t_watchers, t_milestones, db,
                 recovery>>

\* for watcher in watchers: gitlab_project.create_watcher(.., created['iid'])
CreateWatcher ==
  /\ command = "issues" /\ pc = "watchers" /\ cur.watchers # <<>>
  /\ \/ /\ calls' = Append(calls, Call("create_watcher", idx, created, TRUE))
        /\ t_watchers' = t_watchers \cup {<<created, Head(cur.watchers)>>}
        /\ cur' = [cur EXCEPT !.watchers = Tail(@)]
        /\ Goto("watchers")
     \/ /\ calls' = Append(calls, Call("create_watcher", idx, created, FALSE))
        /\ Raise("TargetError")
        /\ UNCHANGED <<t_watchers, cur>>
  /\ UNCHANGED <<session, args, issues, idx, last_iid, created, work, t_issues, t_next_iid,
                 t_labels, t_milestones, db, recovery>>

\* log.info('#{iid} {title}'): the issue is done, the loop goes on
IssueCreated ==
  /\ command = "issues" /\ pc = "watchers" /\ cur.watchers = <<>>
  /\ idx' = idx + 1 /\ cur' = NoCur
  /\ Goto("loop")
  /\ UNCHANGED <<session, args, issues, last_iid, created, work, target, recovery, calls>>

\* ---- perform_migrate_iid ----
Marked(rows) == {r \in rows : r.marker # 0}

\* COUNT_UNMIGRATED_ISSUES: rows whose description still carries the marker
CountUnmigrated(rows) == Cardinality(Marked(rows))

\* unique index index_issues_on_project_id_and_iid
UniqueIid(rows) == \A r1, r2 \in rows : r1.iid = r2.iid => r1.id = r2.id

\* UPDATE_IID_ISSUES: move the iid of every marked row out of the way
Spaced(rows) ==
  {IF r.marker # 0 THEN [r EXCEPT !.iid = @ + SpaceOffset] ELSE r : r \in rows}

\* MIGRATE_IID_ISSUES: iid := captured source id, the marker is consumed
Rewritten(rows) ==
  {IF r.marker # 0 THEN [r EXCEPT !.iid = r.marker, !.marker = 0] ELSE r : r \in rows}

\* the orders in which an UPDATE may visit the marked rows
Orders(rows) ==
  LET ids == {r.id : r \in Marked(rows)}
  IN  {o \in [1..Cardinality(ids) -> ids] :
         \A i, j \in 1..Cardinality(ids) : i # j => o[i] # o[j]}

\* the table while an UPDATE from rows to new has changed the rows in ids only
Partial(rows, new, ids) ==
  {r \in new : r.id \in ids} \cup {r \in rows : r.id \notin ids}

\* the unique index is checked row by row: every row the UPDATE changes, in the
\* order o it visits them, must leave the table without a duplicate iid
Accepted(rows, new, o) ==
  \A k \in 1..Len(o) : UniqueIid(Partial(rows, new, {o[i] : i \in 1..k}))

\* an UPDATE that breaks the unique index fails as a whole: no row changes
RunUpdate(rows, new, o) == IF Accepted(rows, new, o) THEN new ELSE rows
RowsAffected(rows, new, o) == IF Accepted(rows, new, o) THEN CountUnmigrated(rows) ELSE 0

\* variant: the error is logged but exit(1) is forgotten
Scan_NoExit ==
  /\ command = "iid" /\ pc = "start"
  /\ calls' = Append(calls, Call("COUNT_UNMIGRATED_ISSUES", 0, CountUnmigrated(db), TRUE))
  /\ issues_count' = CountUnmigrated(db)
  /\ IF ~check THEN Goto("space") ELSE Return
  /\ UNCHANGED <<session, args, driver, target, affected, migrated_count>>

\* variant: the test is issues_count >= 0
Scan_AcceptsZero ==
  /\ command = "iid" /\ pc = "start"
  /\ calls' = Append(calls, Call("COUNT_UNMIGRATED_ISSUES", 0, CountUnmigrated(db), TRUE))
  /\ issues_count' = CountUnmigrated(db)
  /\ IF CountUnmigrated(db) >= 0
     THEN IF ~check THEN Goto("space") ELSE Return
     ELSE Exit1
  /\ UNCHANGED <<session, args, driver, target, affected, migrated_count>>

\* SCAN: count, parse the count, exit(1) when there is nothing to migrate
Scan ==
  /\ command = "iid" /\ pc = "start"
  /\ calls' = Append(calls, Call("COUNT_UNMIGRATED_ISSUES", 0, CountUnmigrated(db), TRUE))
  /\ issues_count' = CountUnmigrated(db)
  /\ IF CountUnmigrated(db) > 0
     THEN IF ~check THEN Goto("space") ELSE Return
     ELSE Exit1
  /\ UNCHANGED <<session, args, driver, target, affected, migrated_count>>

\* variant: sql_cmd1 is built but never run
Space_NotRun ==
  /\ command = "iid" /\ pc = "space"
  /\ Goto("rewrite")
  /\ UNCHANGED <<session, args, driver, target, recovery, calls>>

\* SPACE: out1 = sql.run_query(sql_cmd1)
Space ==
  /\ command = "iid" /\ pc = "space"
  /\ \E o \in Orders(db) :
       /\ calls' = Append(calls, Call("UPDATE_IID_ISSUES", 0,
                                      RowsAffected(db, Spaced(db), o),
                                      Accepted(db, Spaced(db), o)))
       /\ db' = RunUpdate(db, Spaced(db), o)
  /\ Goto("rewrite")
  /\ UNCHANGED <<session, args, driver, t_issues, t_next_iid, t_labels, t_watchers, t_milestones,
                 recovery>>

\* variant: sql_cmd2 is built from UPDATE_IID_ISSUES again
Rewrite_SpacesAgain ==
  /\ command = "iid" /\ pc = "rewrite"
  /\ \E o \in Orders(db) :
       /\ calls' = Append(calls, Call("UPDATE_IID_ISSUES", 0,
                                      RowsAffected(db, Spaced(db), o),
                                      Accepted(db, Spaced(db), o)))
       /\ db' = RunUpdate(db, Spaced(db), o)
       /\ affected' = RowsAffected(db, Spaced(db), o)
  /\ Goto("report")
  /\ UNCHANGED <<session, args, driver, t_issues, t_next_iid, t_labels, t_watchers,
                 t_milestones, issues_count, migrated_count>>

\* REWRITE: out2 = sql.run_query(sql_cmd2)
Rewrite ==
  /\ command = "iid" /\ pc = "rewrite"
  /\ \E o \in Orders(db) :
       /\ calls' = Append(calls, Call("MIGRATE_IID_ISSUES", 0,
                                      RowsAffected(db, Rewritten(db), o),
                                      Accepted(db, Rewritten(db), o)))
       /\ db' = RunUpdate(db, Rewritten(db), o)
       /\ affected' = RowsAffected(db, Rewritten(db), o)
  /\ Goto("report")
  /\ UNCHANGED <<session, args, driver, t_issues, t_next_iid, t_labels, t_watchers, t_milestones,
                 issues_count, migrated_count>>

\* migrated_count = int(re.match(.., output, ..).group(1)): output is the SCAN output
Report ==
  /\ command = "iid" /\ pc = "report"
  /\ migrated_count' = issues_count
  /\ Return
  /\ UNCHANGED <<session, args, driver, target, issues_count, affected, calls>>

\* the process is killed after the SPACE update and before the REWRITE update
Interrupt ==
  /\ command = "iid" /\ pc = "rewrite"
  /\ pc' = "done" /\ exit_code' = ExitFailed /\ raised' = "interrupted"
  /\ UNCHANGED <<session, args, driver, err, target, recovery, calls>>

\* the operator invokes the iid command again on the same project
Rerun ==
  /\ command = "iid" /\ pc = "done" /\ run < MaxRuns
  /\ run' = run + 1
  /\ pc' = "start" /\ exit_code' = ExitOk /\ raised' = "none"
  /\ issues_count' = 0 /\ affected' = 0 /\ migrated_count' = 0
  /\ UNCHANGED <<db0, args, driver, err, target, calls>>

\* ---- perform_migrate_roadmap ----
\* titles of seq a that are not in seq b, in order
RECURSIVE NotIn(_, _)
NotIn(a, b) ==
  IF a = <<>> THEN <<>>
  ELSE IF Head(a) \in Range(b) THEN NotIn(Tail(a), b)
       ELSE <<Head(a)>> \o NotIn(Tail(a), b)

\* --auto-milestones: absent, malformed, or the generated milestones
AutoMilestones == [given : BOOLEAN, valid : BOOLEAN, titles : UpTo({2}, 1)]

\* parse --auto-milestones, check the source has versions, build versions_data
RoadmapStart ==
  /\ command = "roadmap" /\ pc = "start"
  /\ \E am \in AutoMilestones :
       IF am.given /\ ~am.valid
       THEN Exit1 /\ UNCHANGED work
       ELSE IF ~(Len(work) > 0)
            THEN Exit1 /\ UNCHANGED work
            ELSE /\ work' = IF am.given THEN work \o NotIn(am.titles, work) ELSE work
                 /\ Goto("versions")
  /\ UNCHANGED <<session, args, issues, idx, cur, last_iid, created, target, recovery, calls>>

\* for data, meta in versions_data: log, or gitlab_project.create_milestone
CreateMilestone ==
  /\ command = "roadmap" /\ pc = "versions" /\ work # <<>>
  /\ IF check
     THEN /\ work' = Tail(work)
          /\ Goto("versions")
          /\ UNCHANGED <<t_milestones, calls>>
     ELSE \/ /\ calls' = Append(calls, Call("create_milestone", 0, Head(work), TRUE))
             /\ t_milestones' = t_milestones \cup {Head(work)}
             /\ work' = Tail(work)
             /\ Goto("versions")
          \/ /\ calls' = Append(calls, Call("create_milestone", 0, Head(work), FALSE))
             /\ Raise("TargetError")
             /\ UNCHANGED <<t_milestones, work>>
  /\ UNCHANGED <<session, args, issues, idx, cur, last_iid, created, t_issues, t_next_iid, t_labels,
                 t_watchers, db, recovery>>

\* ---- perform_migrate_labels ----
\* labels = categories, trackers, statuses, priorities of project_labels(pid)
LabelsStart ==
  /\ command = "labels" /\ pc = "start"
  /\ Goto("labels")
  /\ UNCHANGED <<session, args, driver, target, recovery, calls>>

\* variant: args.check is not consulted
CreateProjectLabel_IgnoreCheck ==
  /\ command = "labels" /\ pc = "labels" /\ work # <<>>
  /\ calls' = Append(calls, Call("create_label", 0, Head(work), TRUE))
  /\ t_labels' = t_labels \cup {Head(work)}
  /\ work' = Tail(work)
  /\ Goto("labels")
  /\ UNCHANGED <<session, args, issues, idx, cur, last_iid, created, t_issues, t_next_iid,
                 t_watchers, t_milestones, db, recovery>>

\* for data in labels: log, or gitlab_project.create_label
CreateProjectLabel ==
  /\ command = "labels" /\ pc = "labels" /\ work # <<>>
  /\ IF check
     THEN /\ work' = Tail(work)
          /\ Goto("labels")
          /\ UNCHANGED <<t_labels, calls>>
     ELSE \/ /\ calls' = Append(calls, Call("create_label", 0, Head(work), TRUE))
             /\ t_labels' = t_labels \cup {Head(work)}
             /\ work' = Tail(work)
             /\ Goto("labels")
          \/ /\ calls' = Append(calls, Call("create_label", 0, Head(work), FALSE))
             /\ Raise("TargetError")
             /\ UNCHANGED <<t_labels, work>>
  /\ UNCHANGED <<session, args, issues, idx, cur, last_iid, created, t_issues, t_next_iid,
                 t_watchers, t_milestones, db, recovery>>

\* the for loop of roadmap / labels is over: the command returns
EndWork ==
  /\ \/ command = "roadmap" /\ pc = "versions"
     \/ command = "labels" /\ pc = "labels"
  /\ work = <<>>
  /\ Return
  /\ UNCHANGED <<session, args, driver, target, recovery, calls>>

Next ==
  \/ GetIssues \/ EndIssues \/ ConvertIssue \/ CheckIssue
  \/ CreateFake \/ DeleteFake \/ EndGap
  \/ CreateLabel \/ CreateIssue \/ CreateWatcher \/ IssueCreated
  \/ Scan \/ Space \/ Rewrite \/ Report \/ Interrupt \/ Rerun
  \/ RoadmapStart \/ CreateMilestone \/ LabelsStart \/ CreateProjectLabel \/ EndWork

Spec == Init /\ [][Next]_vars

\* ---- a non-check issues run with --keep-id, followed to its end ----
\* (the target's milestones are read by --check alone: the run starts without any)
KeepIdInit == Init /\ command = "issues" /\ ~check /\ keep_id /\ t_milestones = {}

KeepIdNext ==
  \/ GetIssues \/ EndIssues \/ ConvertIssue
  \/ CreateFake \/ DeleteFake \/ EndGap
  \/ CreateLabel \/ CreateIssue \/ CreateWatcher \/ IssueCreated

\* the command is one sequential thread: it takes its next step as long as it
\* has one, and every call to the target returns or raises
KeepIdSpec == KeepIdInit /\ [][KeepIdNext]_vars /\ WF_vars(KeepIdNext)

\* ---- properties ----
IsCreate(c) == c.ok /\ c.op \in {"create_issue", "create_issue_fake"}
Creates == SelectSeq(calls, IsCreate)

\* the run is a non-check issues run with --keep-id
GapRun == command = "issues" /\ ~check /\ keep_id

\* the starting id k of the run
StartingId == IF initial_id # NoArg THEN initial_id ELSE 1

\* the loop runs over ascending source ids
Ascending == \A i, j \in 1..Len(issues) : i < j => issues[i] < issues[j]

\* the target has handed out consecutive sequential ids starting at k
TargetFrom(k) == \A j \in 1..Len(Creates) : Creates[j].arg = k + j - 1

\* C1: gap-filling, ascending source ids, target handing out consecutive ids
\* from the starting id: every real creation for source issue S receives
\* sequential id S, and last_iid = S right after S has been processed.
C1_GapFillKeepsIds ==
  (GapRun /\ Ascending /\ TargetFrom(StartingId)) =>
    /\ \A j \in 1..Len(calls) :
         (calls[j].op = "create_issue" /\ calls[j].ok) => calls[j].arg = issues[calls[j].issue]
    /\ \A i \in t_issues : ~i.fake => i.iid = i.src
    /\ (pc = "watchers" => last_iid = redmine_id)
    /\ ((pc = "loop" /\ idx > 1) => last_iid = issues[idx - 1])

C1_Witness ==
  /\ GapRun /\ Ascending /\ TargetFrom(StartingId)
  /\ Len(issues) = 2 /\ pc = "loop" /\ idx = 3
  /\ issues[1] = 2 /\ issues[2] = 3
  /\ \E j \in 1..Len(calls) : calls[j].op = "create_issue_fake" /\ calls[j].ok
  /\ last_iid = issues[2]

\* C2: in gap-filling mode no placeholder exists in the target whenever a
\* further placeholder or a real issue is about to be created, nor when the
\* run has completed without error.
C2_NoPlaceholderLeft ==
  GapRun =>
    ((pc \in {"gap", "labels", "watchers", "loop"} \/ (pc = "done" /\ raised = "none"))
       => \A i \in t_issues : ~i.fake)

C2_Witness ==
  /\ GapRun /\ pc = "done" /\ raised = "none"
  /\ Cardinality({j \in 1..Len(calls) : calls[j].op = "create_issue_fake" /\ calls[j].ok}) >= 2
  /\ \E i \in t_issues : ~i.fake

\* C3: gap-filling, ascending source ids, consecutive target ids from the
\* starting id k: a completed run has made exactly one creation per id from k
\* to the largest source id, a placeholder (deleted at once) for each id that
\* is no source id and the real creation of S for each id S that is one, and
\* the final last_iid is the largest source id.
C3_CreationSequence ==
  (GapRun /\ Ascending /\ TargetFrom(StartingId) /\ pc = "done" /\ raised = "none") =>
    IF issues = <<>>
    THEN Creates = <<>>
    ELSE /\ Len(Creates) = issues[Len(issues)] - StartingId + 1
         /\ \A j \in 1..Len(Creates) :
              LET id == StartingId + j - 1
              IN  /\ Creates[j].arg = id
                  /\ (Creates[j].op = "create_issue") <=> (id \in Range(issues))
                  /\ Creates[j].op = "create_issue" => issues[Creates[j].issue] = id
         /\ \A j \in 1..Len(calls) :
              (calls[j].op = "create_issue_fake") =>
                 /\ j < Len(calls)
                 /\ calls[j + 1].op = "delete_issue" /\ calls[j + 1].ok
                 /\ calls[j + 1].arg = calls[j].arg
         /\ last_iid = issues[Len(issues)]

C3_Witness ==
  /\ GapRun /\ Ascending /\ TargetFrom(StartingId) /\ pc = "done" /\ raised = "none"
  /\ initial_id = NoArg /\ issues = <<1, 3>>
  /\ Len(Creates) = 3 /\ last_iid = 3

\* indices of the source issues that have been converted so far
Started == {i \in 1..Len(issues) : i < idx \/ (i = idx /\ pc \notin {"start", "loop"})}

\* C4: the driver converts and creates the issues in strictly ascending
\* source-id order, whatever order the source API returned them in.
C4_AscendingOrder ==
  command = "issues" =>
    /\ \A i, j \in Started : i < j => issues[i] < issues[j]
    /\ \A p, q \in 1..Len(calls) :
         (p < q /\ calls[p].op = "create_issue" /\ calls[q].op = "create_issue")
            => issues[calls[p].issue] < issues[calls[q].issue]

NoMutatingCall(cs) == \A j \in 1..Len(cs) : cs[j].op \notin MutatingOps

\* C5: with --check no command changes the target: every step leaves the
\* target's issues, labels, watchers, milestones and issues table as they
\* are, and no creating, deleting or updating call is ever made.
C5_CheckMutatesNothing ==
  [][check => (UNCHANGED target /\ NoMutatingCall(calls'))]_vars

C5_Witness ==
  /\ check /\ command = "issues" /\ pc = "done" /\ raised = "none"
  /\ Len(issues) >= 2 /\ idx = Len(issues) + 1
  /\ \E j \in 1..Len(calls) : calls[j].op = "get_milestone_by_id" /\ calls[j].ok

\* the issue being examined in a dry run points to a milestone the target lacks
UnknownMilestone ==
  /\ command = "issues" /\ check /\ pc = "check"
  /\ cur.milestone_id # 0 /\ ~get_milestone_by_id(t_milestones, cur.milestone_id)

\* C6: in a dry run of issues, examining an issue whose milestone_id the
\* target cannot resolve ends the run with a CommandError naming the issue's
\* title and the milestone id and with exit code 12; nothing has been created
\* and no step follows the end of the run (no later issue is examined).
C6_UnknownMilestoneInCheck ==
  [][/\ command = "issues" => pc # "done"
     /\ UnknownMilestone =>
          /\ pc' = "done" /\ raised' = "CommandError" /\ exit_code' = ExitCommandError
          /\ err' = [title |-> redmine_id, milestone_id |-> cur.milestone_id]
          /\ idx' = idx
          /\ UNCHANGED target
          /\ t_issues' = {} /\ t_labels' = {} /\ t_watchers' = {}
          /\ NoMutatingCall(calls')]_vars

C6_Witness ==
  /\ command = "issues" /\ check /\ pc = "done" /\ raised = "CommandError"
  /\ exit_code = ExitCommandError
  /\ idx = 2 /\ Len(issues) = 3
  /\ err = [title |-> issues[2], milestone_id |-> 1]

\* C7: in a non-check issues run a failed target call ends the run: it is the
\* last target call ever made (no retry, no further call) and the run is over
\* with the exception.
C7_FailFast ==
  (command = "issues" /\ ~check) =>
    \A j \in 1..Len(calls) :
       ~calls[j].ok =>
          /\ j = Len(calls)
          /\ pc = "done" /\ raised = "TargetError" /\ exit_code = ExitFailed

C7_Witness ==
  /\ command = "issues" /\ ~check /\ keep_id
  /\ pc = "done" /\ raised = "TargetError"
  /\ Ascending /\ idx < Len(issues)
  /\ Len(calls) >= 2 /\ ~calls[Len(calls)].ok
  /\ calls[Len(calls)].op = "delete_issue"

\* C8: in a non-check issues run a failed conversion of a source issue ends
\* the run: no target call was or is made for that issue or a later one, and
\* the issues created for the earlier source issues are still in the target.
C8_ResolutionFailureAborts ==
  (command = "issues" /\ ~check /\ raised = "ConvertError") =>
    /\ pc = "done" /\ exit_code = ExitFailed
    /\ \A j \in 1..Len(calls) : calls[j].issue < idx
    /\ {i.src : i \in t_issues} = {issues[i] : i \in 1..(idx - 1)}
    /\ \A i \in t_issues : ~i.fake

C8_Witness ==
  /\ command = "issues" /\ ~check /\ raised = "ConvertError" /\ pc = "done"
  /\ idx = 2 /\ Len(issues) = 3
  /\ \E i \in t_issues : i.src = issues[1]

\* the calls of the current invocation of the iid command
RunCalls ==
  LET scans == {j \in 1..Len(calls) : calls[j].op = "COUNT_UNMIGRATED_ISSUES"}
      last == CHOOSE j \in scans : \A i \in scans : i <= j
  IN  IF scans = {} \/ pc = "start" THEN <<>> ELSE SubSeq(calls, last, Len(calls))

NoUpdate(cs) ==
  \A j \in 1..Len(cs) : cs[j].op \notin {"UPDATE_IID_ISSUES", "MIGRATE_IID_ISSUES"}

\* C9: when the SCAN counts zero marked rows the iid command ends with exit
\* status 1, neither update is issued and the issues table is left unchanged.
C9_NothingToMigrate ==
  [][(command = "iid" /\ pc' # "start" /\ issues_count' = 0) =>
        /\ pc' = "done" /\ exit_code' = ExitFailed /\ raised' = "exit"
        /\ NoUpdate(RunCalls')
        /\ UNCHANGED target]_vars

C9_Witness ==
  /\ command = "iid" /\ ~check /\ pc = "done" /\ issues_count = 0
  /\ exit_code = ExitFailed /\ Cardinality(db) = 2
  /\ Len(calls) = 1

\* C10: a completed non-check iid run reports the number of rows the REWRITE
\* update affected, and does not end successfully when that number differs
\* from the SCAN count.
C10_ReportsAffectedRows ==
  (command = "iid" /\ ~check /\ pc = "done" /\ issues_count > 0) =>
    /\ migrated_count = affected
    /\ (affected # issues_count => exit_code # ExitOk)

\* position in calls of the SCAN of the current invocation (0 before it)
LastScan ==
  LET scans == {j \in 1..Len(calls) : calls[j].op = "COUNT_UNMIGRATED_ISSUES"}
  IN  IF scans = {} \/ pc = "start" THEN 0 ELSE CHOOSE j \in scans : \A i \in scans : i <= j

\* an earlier invocation ran SCAN, SPACE and REWRITE and returned
CompletedBefore ==
  \E j \in 1..Len(calls) : j < LastScan /\ calls[j].op = "MIGRATE_IID_ISSUES"

\* an earlier invocation ran SCAN, SPACE and REWRITE, and its REWRITE update was
\* applied (the unique index did not reject it)
AppliedBefore ==
  \E j \in 1..Len(calls) : j < LastScan /\ calls[j].op = "MIGRATE_IID_ISSUES" /\ calls[j].ok

InterruptedBefore ==
  \E j \in 1..(Len(calls) - 1) :
     calls[j].op = "UPDATE_IID_ISSUES" /\ calls[j + 1].op = "COUNT_UNMIGRATED_ISSUES"

\* the invocation after an interruption has run to its end
RerunCompleted ==
  /\ command = "iid" /\ ~check /\ InterruptedBefore
  /\ pc = "done" /\ raised = "none"

DistinctSourceIds(rows) ==
  \A r1, r2 \in Marked(rows) : r1.marker = r2.marker => r1.id = r2.id

\* every final id that is occupied is occupied by a marked issue
OccupiedByMarkedOnly(rows) ==
  \A r \in Marked(rows) : \A q \in rows : q.iid = r.marker => q.marker # 0

\* the statements of the current invocation, in order
RunOps == [j \in 1..Len(RunCalls) |-> RunCalls[j].op]

IidStatements == <<"COUNT_UNMIGRATED_ISSUES", "UPDATE_IID_ISSUES", "MIGRATE_IID_ISSUES">>

\* C13: in a non-check iid run over marked issues with pairwise distinct
\* source ids no two issues ever hold the same sequential id; SPACE is issued
\* once and before the single REWRITE; and when the final ids are occupied by
\* marked issues only, every row-by-row intermediate table of the REWRITE is
\* free of duplicates, so the REWRITE is applied.
C13_UniqueThroughout ==
  (command = "iid" /\ ~check /\ DistinctSourceIds(db0)) =>
     /\ UniqueIid(db)
     /\ RunOps = SubSeq(IidStatements, 1, Len(RunOps))
     /\ (pc \in {"report", "done"} /\ raised = "none" /\ LastScan # 0)
           => RunOps = IidStatements
     /\ (pc = "rewrite" /\ OccupiedByMarkedOnly(db0)) =>
           \A o \in Orders(db) : \A k \in 1..Len(o) :
              UniqueIid(Partial(db, Rewritten(db), {o[i] : i \in 1..k}))
     /\ (pc = "report" /\ OccupiedByMarkedOnly(db0)) =>
           (db = Rewritten(db0) /\ affected = issues_count)

C13_Witness ==
  /\ command = "iid" /\ ~check /\ run = 1 /\ pc = "report"
  /\ db0 = {[id |-> 1, iid |-> 1, marker |-> 2], [id |-> 2, iid |-> 2, marker |-> 3],
            [id |-> 3, iid |-> 3, marker |-> 1]}
  /\ db = Rewritten(db0) /\ affected = 3

\* the step calls the target to create a placeholder
PlaceholderCall ==
  /\ Len(calls') = Len(calls) + 1
  /\ calls'[Len(calls')].op = "create_issue_fake"

\* C14: a non-check issues run with --keep-id over a finite list of source
\* issues eventually finishes (it completes or aborts on an error), with the
\* target handing out increasing sequential ids; at the head of the
\* placeholder loop for source id S a placeholder is created exactly when
\* S > last_iid + 1, and none is created when S <= last_iid + 1.
C14_GapFillTerminates ==
  /\ <>(pc = "done")
  /\ [][PlaceholderCall => (pc = "gap" /\ issues[idx] > last_iid + 1)]_vars
  /\ [][(pc = "gap" /\ issues[idx] > last_iid + 1) => PlaceholderCall]_vars
  /\ [][(pc = "gap" /\ issues[idx] <= last_iid + 1) =>
          (pc' = "labels" /\ calls' = calls /\ t_issues' = t_issues)]_vars

C14_Witness ==
  /\ GapRun /\ pc = "done" /\ raised = "none" /\ exit_code = ExitOk
  /\ initial_id = NoArg /\ issues = <<3, 1>> /\ idx = 3
  /\ Cardinality({j \in 1..Len(calls) : calls[j].op = "create_issue_fake"}) = 2
  /\ \A j \in 1..Len(calls) : calls[j].op = "create_issue_fake" => calls[j].issue = 1
====
